---- MODULE Spec2Model ----
(***************************************************************************)
(* Model of db/database.js of LightBnB: the data-access functions          *)
(* getUserWithEmail, getUserWithId, addUser, getAllReservations,           *)
(* getAllProperties and addProperty, the query text getAllProperties       *)
(* assembles character by character, the relational store the queries run  *)
(* against, and the process-local properties mapping addProperty writes.   *)
(***************************************************************************)
EXTENDS Integers, Sequences, FiniteSets, TLC

\* ---------------------------------------------------------------- bounds
\* largest serial id the users table hands out before the model stops adding
MaxUserId == 4
\* largest number of keys of the in-memory properties mapping
MaxProps == 2

\* limit = 10 default parameter of getAllReservations / getAllProperties
DefaultLimit == 10

\* ------------------------------------------------------- JavaScript values
\* an optional field of an object: <<>> when the field is missing, <<v>> else
Missing == <<>>

Some(v) == <<v>>

\* JavaScript truthiness of an optional numeric field: missing and 0 are falsy
TruthyNum(m) == m # Missing /\ m[1] # 0

\* JavaScript truthiness of an optional string field: missing and "" are falsy
TruthyStr(m) == m # Missing /\ Len(m[1]) > 0

\* a query parameter as handed to the driver
NumParam(n) == [t |-> "num", n |-> n, s |-> <<>>]

TextParam(s) == [t |-> "text", n |-> 0, s |-> s]

Digits == <<"0","1","2","3","4","5","6","7","8","9">>

RECURSIVE NumStr(_)
\* decimal rendering of a non-negative integer inside a template literal
NumStr(n) ==
  IF n < 10 THEN <<Digits[n + 1]>> ELSE NumStr(n \div 10) \o <<Digits[(n % 10) + 1]>>

\* String.prototype.includes
Includes(s, sub) ==
  \E i \in 1..(Len(s) - Len(sub) + 1) : SubSeq(s, i, i + Len(sub) - 1) = sub

\* ------------------------------------------- query text of getAllProperties
\* QS_Base = '\n  SELECT properties.*, avg(property_reviews.rating) as average_rating\n  FROM properties\n  JOIN property_reviews ON properties.id = property_id\n  '
QS_Base ==
  <<"\n"," "," ","S","E","L","E","C","T"," ","p","r","o","p","e","r","t","i","e","s",".","*",","," ","a","v","g","(","p","r","o","p","e","r","t","y","_","r","e","v","i","e","w","s",".","r","a","t","i","n","g",")"," ","a","s"," ","a","v","e","r","a","g","e","_","r","a","t","i","n","g","\n"," "," ","F","R","O","M"," ","p","r","o","p","e","r","t","i","e","s","\n"," "," ","J","O","I","N"," ","p","r","o","p","e","r","t","y","_","r","e","v","i","e","w","s"," ","O","N"," ","p","r","o","p","e","r","t","i","e","s",".","i","d"," ","="," ","p","r","o","p","e","r","t","y","_","i","d","\n"," "," ">>

\* QS_OwnerHead = 'JOIN users ON $'
QS_OwnerHead ==
  <<"J","O","I","N"," ","u","s","e","r","s"," ","O","N"," ","$">>

\* QS_OwnerTail = ' = properties.owner_id'
QS_OwnerTail ==
  <<" ","="," ","p","r","o","p","e","r","t","i","e","s",".","o","w","n","e","r","_","i","d">>

\* QS_CityHead = 'WHERE city LIKE $'
QS_CityHead ==
  <<"W","H","E","R","E"," ","c","i","t","y"," ","L","I","K","E"," ","$">>

\* QS_CityTail = ' '
QS_CityTail ==
  <<" ">>

\* QS_MinAnd = 'AND cost_per_night >= $'
QS_MinAnd ==
  <<"A","N","D"," ","c","o","s","t","_","p","e","r","_","n","i","g","h","t"," ",">","="," ","$">>

\* QS_MinWhere = 'WHERE cost_per_night >= $'
QS_MinWhere ==
  <<"W","H","E","R","E"," ","c","o","s","t","_","p","e","r","_","n","i","g","h","t"," ",">","="," ","$">>

\* QS_MaxAnd = 'AND cost_per_night <= $'
QS_MaxAnd ==
  <<"A","N","D"," ","c","o","s","t","_","p","e","r","_","n","i","g","h","t"," ","<","="," ","$">>

\* QS_MaxWhere = 'WHERE cost_per_night <= $'
QS_MaxWhere ==
  <<"W","H","E","R","E"," ","c","o","s","t","_","p","e","r","_","n","i","g","h","t"," ","<","="," ","$">>

\* QS_Rating = '\n    GROUP BY properties.id\n    HAVING avg(property_reviews.rating) >= $'
QS_Rating ==
  <<"\n"," "," "," "," ","G","R","O","U","P"," ","B","Y"," ","p","r","o","p","e","r","t","i","e","s",".","i","d","\n"," "," "," "," ","H","A","V","I","N","G"," ","a","v","g","(","p","r","o","p","e","r","t","y","_","r","e","v","i","e","w","s",".","r","a","t","i","n","g",")"," ",">","="," ","$">>

\* QS_OrderHead = '\n    ORDER BY cost_per_night\n  LIMIT $'
QS_OrderHead ==
  <<"\n"," "," "," "," ","O","R","D","E","R"," ","B","Y"," ","c","o","s","t","_","p","e","r","_","n","i","g","h","t","\n"," "," ","L","I","M","I","T"," ","$">>

\* QS_OrderTail = ';'
QS_OrderTail ==
  <<";">>

\* QS_GroupOrderHead = '\n    GROUP BY properties.id\n    ORDER BY cost_per_night\n    LIMIT $'
QS_GroupOrderHead ==
  <<"\n"," "," "," "," ","G","R","O","U","P"," ","B","Y"," ","p","r","o","p","e","r","t","i","e","s",".","i","d","\n"," "," "," "," ","O","R","D","E","R"," ","B","Y"," ","c","o","s","t","_","p","e","r","_","n","i","g","h","t","\n"," "," "," "," ","L","I","M","I","T"," ","$">>

\* QS_GroupOrderTail = ';\n    '
QS_GroupOrderTail ==
  <<";","\n"," "," "," "," ">>

\* STR_WHERE = 'WHERE'
STR_WHERE ==
  <<"W","H","E","R","E">>

\* STR_GROUP_BY = 'GROUP BY'
STR_GROUP_BY ==
  <<"G","R","O","U","P"," ","B","Y">>

\* the state of the builder: the text so far and the parameters so far
StepOwner(q, options) ==
  IF TruthyNum(options.owner_id)
  THEN LET ps == Append(q.queryParams, NumParam(options.owner_id[1]))
       IN [queryString |-> q.queryString \o QS_OwnerHead \o NumStr(Len(ps)) \o QS_OwnerTail,
           queryParams |-> ps]
  ELSE q

StepCity(q, options) ==
  IF TruthyStr(options.city)
  THEN LET ps == Append(q.queryParams, TextParam(<<"%">> \o options.city[1] \o <<"%">>))
       IN [queryString |-> q.queryString \o QS_CityHead \o NumStr(Len(ps)) \o QS_CityTail,
           queryParams |-> ps]
  ELSE q

StepMinPrice(q, options) ==
  IF TruthyNum(options.minimum_price_per_night)
  THEN LET ps == Append(q.queryParams, NumParam(options.minimum_price_per_night[1] * 100))
       IN [queryString |->
             IF Includes(q.queryString, STR_WHERE)
             THEN q.queryString \o QS_MinAnd \o NumStr(Len(ps))
             ELSE q.queryString \o QS_MinWhere \o NumStr(Len(ps)),
           queryParams |-> ps]
  ELSE q

StepMaxPrice(q, options) ==
  IF TruthyNum(options.maximum_price_per_night)
  THEN LET ps == Append(q.queryParams, NumParam(options.maximum_price_per_night[1] * 100))
       IN [queryString |->
             IF Includes(q.queryString, STR_WHERE)
             THEN q.queryString \o QS_MaxAnd \o NumStr(Len(ps))
             ELSE q.queryString \o QS_MaxWhere \o NumStr(Len(ps)),
           queryParams |-> ps]
  ELSE q

StepRating(q, options) ==
  IF TruthyNum(options.minimum_rating)
  THEN LET ps == Append(q.queryParams, NumParam(options.minimum_rating[1]))
       IN [queryString |-> q.queryString \o QS_Rating \o NumStr(Len(ps)),
           queryParams |-> ps]
  ELSE q

\* StepLimit with the placeholder numbered before limit is pushed
StepLimit_StalePlaceholder(q, limit) ==
  LET ps == Append(q.queryParams, limit)
  IN [queryString |->
        IF Includes(q.queryString, STR_GROUP_BY)
        THEN q.queryString \o QS_OrderHead \o NumStr(Len(q.queryParams)) \o QS_OrderTail
        ELSE q.queryString \o QS_GroupOrderHead \o NumStr(Len(q.queryParams)) \o QS_GroupOrderTail,
      queryParams |-> ps]

StepLimit(q, limit) ==
  LET ps == Append(q.queryParams, limit)
  IN [queryString |->
        IF Includes(q.queryString, STR_GROUP_BY)
        THEN q.queryString \o QS_OrderHead \o NumStr(Len(ps)) \o QS_OrderTail
        ELSE q.queryString \o QS_GroupOrderHead \o NumStr(Len(ps)) \o QS_GroupOrderTail,
      queryParams |-> ps]

\* the query text and parameter list getAllProperties hands to pool.query
BuildQuery(options, limit) ==
  StepLimit(
    StepRating(
      StepMaxPrice(
        StepMinPrice(
          StepCity(
            StepOwner([queryString |-> QS_Base, queryParams |-> <<>>], options),
            options),
          options),
        options),
      options),
    limit)

\* ------------------------------------------------ the store's SQL scanner
Letters ==
  {"a","b","c","d","e","f","g","h","i","j","k","l","m","n","o","p","q","r","s",
   "t","u","v","w","x","y","z","A","B","C","D","E","F","G","H","I","J","K","L",
   "M","N","O","P","Q","R","S","T","U","V","W","X","Y","Z","_"}

IsSpace(c) == c \in {" ", "\n", "\t"}

IsDigit(c) == c \in {"0","1","2","3","4","5","6","7","8","9"}

IsIdentStart(c) == c \in Letters

\* a qualified name such as properties.owner_id is scanned as one word
IsIdentChar(c) == c \in Letters \/ IsDigit(c) \/ c = "."

IsOpChar(c) == c \in {"<", ">", "="}

RECURSIVE DigitEnd(_, _)
\* index of the last digit of the run of digits starting at i (i-1 if none)
DigitEnd(s, i) ==
  IF i <= Len(s) /\ IsDigit(s[i]) THEN DigitEnd(s, i + 1) ELSE i - 1

RECURSIVE IdentEnd(_, _)
IdentEnd(s, i) ==
  IF i <= Len(s) /\ IsIdentChar(s[i]) THEN IdentEnd(s, i + 1) ELSE i - 1

RECURSIVE OpEnd(_, _)
OpEnd(s, i) ==
  IF i <= Len(s) /\ IsOpChar(s[i]) THEN OpEnd(s, i + 1) ELSE i - 1

RECURSIVE Join(_, _, _)
\* the characters s[i..j] as one token
Join(s, i, j) == IF i > j THEN "" ELSE s[i] \o Join(s, i + 1, j)

RECURSIVE Kind(_, _)
\* the kind of token the character at position i belongs to; a digit belongs
\* to a parameter when the digits before it lead back to a "$"
Kind(s, i) ==
  IF IsSpace(s[i]) THEN "space"
  ELSE IF s[i] = "$" THEN "param"
  ELSE IF IsDigit(s[i]) /\ i > 1 /\ Kind(s, i - 1) = "param" THEN "param"
  ELSE IF IsIdentChar(s[i]) THEN "word"
  ELSE IF IsOpChar(s[i]) THEN "op"
  ELSE "punct"

\* position i is the first character of a token
StartsToken(s, i) ==
  /\ Kind(s, i) # "space"
  /\ \/ i = 1
     \/ s[i] = "$"
     \/ Kind(s, i) = "punct"
     \/ Kind(s, i - 1) # Kind(s, i)

\* last position of the token that starts at i
TokenEnd(s, i) ==
  IF s[i] = "$" THEN DigitEnd(s, i + 1)
  ELSE IF IsIdentChar(s[i]) THEN IdentEnd(s, i)
  ELSE IF IsOpChar(s[i]) THEN OpEnd(s, i)
  ELSE i

\* the token sequence of a statement
Lex(s) ==
  LET starts == {i \in 1..Len(s) : StartsToken(s, i)}
      rank == [i \in starts |-> Cardinality({j \in starts : j <= i})]
      Nth(k) == CHOOSE i \in starts : rank[i] = k
  IN [k \in 1..Cardinality(starts) |-> Join(s, Nth(k), TokenEnd(s, Nth(k)))]

\* a parameter immediately followed by a letter ("$1AND"): newer servers
\* reject the statement, older ones read a parameter and then a word
ParamJunk(s) ==
  \E i \in 1..Len(s) :
     /\ s[i] = "$"
     /\ LET j == DigitEnd(s, i + 1)
        IN j > i /\ j < Len(s) /\ IsIdentStart(s[j + 1])

\* the parameter tokens $1 .. $9
ParamTok(k) == "$" \o Digits[k + 1]

IsParamTok(tok) == \E k \in 1..9 : tok = ParamTok(k)

ParamNo(tok) == CHOOSE k \in 1..9 : tok = ParamTok(k)

\* ------------------------------------------------------ the relational store
\* rows of the properties table: cost_per_night is in cents
properties_table ==
  { [id |-> 1, owner_id |-> 1, city |-> <<"V","a","n">>, cost_per_night |-> 10000],
    [id |-> 2, owner_id |-> 2, city |-> <<"A","b">>,     cost_per_night |-> 10000],
    [id |-> 3, owner_id |-> 1, city |-> <<"V","a","n">>, cost_per_night |-> 20000],
    [id |-> 4, owner_id |-> 2, city |-> <<"V","a","n">>, cost_per_night |-> 25000] }

\* rows of the property_reviews table; property 3 has no review
property_reviews ==
  { [id |-> 1, property_id |-> 1, rating |-> 3],
    [id |-> 2, property_id |-> 1, rating |-> 4],
    [id |-> 3, property_id |-> 2, rating |-> 5],
    [id |-> 4, property_id |-> 4, rating |-> 4] }

\* rows of the reservations table; guest 2 has no reservation
reservations ==
  { [id |-> 1, guest_id |-> 1, property_id |-> 2, start_date |-> 2],
    [id |-> 2, guest_id |-> 1, property_id |-> 1, start_date |-> 1],
    [id |-> 3, guest_id |-> 1, property_id |-> 3, start_date |-> 1],
    [id |-> 4, guest_id |-> 1, property_id |-> 4, start_date |-> 2],
    [id |-> 5, guest_id |-> 3, property_id |-> 1, start_date |-> 3] }

\* rows of the users table when the process starts
InitialUsers ==
  { [id |-> 1, name |-> "Ana", email |-> "ana@x.com", password |-> "p"],
    [id |-> 2, name |-> "Bob", email |-> "bob@x.com", password |-> "p"] }

RECURSIVE GCD(_, _)
GCD(a, b) == IF b = 0 THEN a ELSE GCD(b, a % b)

\* avg(...) over a non-empty group, as an exact fraction in lowest terms
Mean(sum, count) ==
  LET g == GCD(sum, count) IN [num |-> sum \div g, den |-> count \div g]

RECURSIVE SumRatings(_)
\* sum of the rating column over a set of joined rows <<property, review, user id>>
SumRatings(rows) ==
  IF rows = {} THEN 0
  ELSE LET x == CHOOSE y \in rows : TRUE IN x[2].rating + SumRatings(rows \ {x})

RECURSIVE LikeFrom(_, _, _, _)
\* SQL LIKE: % matches any run of characters, _ any one character
LikeFrom(s, i, p, j) ==
  IF j > Len(p) THEN i > Len(s)
  ELSE IF p[j] = "%"
       THEN LikeFrom(s, i, p, j + 1) \/ (i <= Len(s) /\ LikeFrom(s, i + 1, p, j))
  ELSE i <= Len(s) /\ (p[j] = "_" \/ p[j] = s[i]) /\ LikeFrom(s, i + 1, p, j + 1)

Like(s, p) == LikeFrom(s, 1, p, 1)

\* the sequences that list every element of S once, in non-decreasing order of
\* the sort key key[x]:
\* the orders ORDER BY may produce (rows with equal keys come in any order)
OrderedBy(S, key) ==
  { f \in [1..Cardinality(S) -> S] :
      /\ \A i, j \in 1..Cardinality(S) : i # j => f[i] # f[j]
      /\ \A i \in 1..(Cardinality(S) - 1) : key[f[i]] <= key[f[i + 1]] }

\* LIMIT n: the first n rows
Take(rows, n) == IF n >= Len(rows) THEN rows ELSE SubSeq(rows, 1, n)

\* ---------------------------------------- the statement of getAllProperties
SelectToks ==
  <<"SELECT", "properties.", "*", ",", "avg", "(", "property_reviews.rating", ")",
    "as", "average_rating", "FROM", "properties", "JOIN", "property_reviews",
    "ON", "properties.id", "=", "property_id">>

OwnerJoinHead == <<"JOIN", "users", "ON">>

OwnerJoinTail == <<"=", "properties.owner_id">>

GroupByToks == <<"GROUP", "BY", "properties.id">>

HavingToks == <<"HAVING", "avg", "(", "property_reviews.rating", ")", ">=">>

OrderByToks == <<"ORDER", "BY", "cost_per_night">>

\* toks carries the tokens pat from position i on
Match(toks, i, pat) ==
  i + Len(pat) - 1 <= Len(toks) /\ SubSeq(toks, i, i + Len(pat) - 1) = pat

ParamAt(toks, i) == i <= Len(toks) /\ IsParamTok(toks[i])

\* one row predicate at position i: column, operator, parameter
PredAt(toks, i) ==
  /\ i + 2 <= Len(toks)
  /\ \/ toks[i] = "city" /\ toks[i + 1] = "LIKE"
     \/ toks[i] = "cost_per_night" /\ toks[i + 1] \in {">=", "<="}
  /\ IsParamTok(toks[i + 2])

RECURSIVE ParsePreds(_, _)
\* the predicates chained by AND from position i on, and where they end
ParsePreds(toks, i) ==
  IF ~PredAt(toks, i) THEN [ok |-> FALSE, preds |-> <<>>, next |-> i]
  ELSE LET p == [col |-> toks[i], op |-> toks[i + 1], param |-> ParamNo(toks[i + 2])]
       IN IF i + 3 <= Len(toks) /\ toks[i + 3] = "AND"
          THEN LET rest == ParsePreds(toks, i + 4)
               IN [ok |-> rest.ok, preds |-> <<p>> \o rest.preds, next |-> rest.next]
          ELSE [ok |-> TRUE, preds |-> <<p>>, next |-> i + 3]

\* the statement the store reads from the tokens, or ok = FALSE (syntax error)
ParseSelect(toks) ==
  LET bad == [ok |-> FALSE, owner |-> 0, preds |-> <<>>, having |-> 0, limit |-> 0]
      i0 == Len(SelectToks) + 1
      hasOwner == Match(toks, i0, OwnerJoinHead)
      ownerOk == ParamAt(toks, i0 + 3) /\ Match(toks, i0 + 4, OwnerJoinTail)
      i1 == IF hasOwner THEN i0 + 6 ELSE i0
      hasWhere == Match(toks, i1, <<"WHERE">>)
      w == IF hasWhere THEN ParsePreds(toks, i1 + 1)
                       ELSE [ok |-> TRUE, preds |-> <<>>, next |-> i1]
      i2 == w.next
      i3 == i2 + Len(GroupByToks)
      hasHaving == Match(toks, i3, HavingToks)
      i4 == IF hasHaving THEN i3 + Len(HavingToks) + 1 ELSE i3
      i5 == i4 + Len(OrderByToks)
  IN IF /\ Match(toks, 1, SelectToks)
        /\ hasOwner => ownerOk
        /\ w.ok
        /\ Match(toks, i2, GroupByToks)
        /\ hasHaving => ParamAt(toks, i3 + Len(HavingToks))
        /\ Match(toks, i4, OrderByToks)
        /\ Match(toks, i5, <<"LIMIT">>)
        /\ ParamAt(toks, i5 + 1)
        /\ Match(toks, i5 + 2, <<";">>)
        /\ Len(toks) = i5 + 2
     THEN [ok |-> TRUE,
           owner |-> IF hasOwner THEN ParamNo(toks[i0 + 3]) ELSE 0,
           preds |-> w.preds,
           having |-> IF hasHaving THEN ParamNo(toks[i3 + Len(HavingToks)]) ELSE 0,
           limit |-> ParamNo(toks[i5 + 1])]
     ELSE bad

\* the parameter numbers a parsed statement refers to
ParamsUsed(st) ==
  (IF st.owner # 0 THEN {st.owner} ELSE {})
    \cup {st.preds[k].param : k \in 1..Len(st.preds)}
    \cup (IF st.having # 0 THEN {st.having} ELSE {})
    \cup {st.limit}

\* a row of properties joined with property_reviews (and users) passes WHERE
PassesPreds(p, st, params) ==
  \A k \in 1..Len(st.preds) :
     LET pr == st.preds[k]
         v == params[pr.param]
     IN IF pr.col = "city" THEN v.t = "text" /\ Like(p.city, v.s)
        ELSE IF pr.op = ">=" THEN v.t = "num" /\ p.cost_per_night >= v.n
        ELSE v.t = "num" /\ p.cost_per_night <= v.n

\* JoinedRows with the users join comparing the parameter to itself
JoinedRows_SelfCompare(st, params, usersTable) ==
  { row \in properties_table \X property_reviews
              \X (IF st.owner # 0 THEN {u.id : u \in usersTable} ELSE {0}) :
      /\ row[1].id = row[2].property_id
      /\ st.owner # 0 => params[st.owner].t = "num" /\ params[st.owner].n = params[st.owner].n
      /\ PassesPreds(row[1], st, params) }

\* the rows FROM properties JOIN property_reviews [JOIN users] WHERE ... yields
JoinedRows(st, params, usersTable) ==
  { row \in properties_table \X property_reviews
              \X (IF st.owner # 0 THEN {u.id : u \in usersTable} ELSE {0}) :
      /\ row[1].id = row[2].property_id
      /\ st.owner # 0 => params[st.owner].t = "num" /\ params[st.owner].n = row[1].owner_id
      /\ PassesPreds(row[1], st, params) }

\* GROUP BY properties.id, HAVING, and the selected columns of each group
GroupRows(st, params, usersTable) ==
  LET joined == JoinedRows(st, params, usersTable)
      Group(p) == {row \in joined : row[1] = p}
      Avg(p) == Mean(SumRatings(Group(p)), Cardinality(Group(p)))
  IN { [id |-> p.id, owner_id |-> p.owner_id, city |-> p.city,
        cost_per_night |-> p.cost_per_night, average_rating |-> Avg(p)] :
       p \in { q \in properties_table :
                 /\ Group(q) # {}
                 /\ st.having # 0 =>
                      SumRatings(Group(q)) >= params[st.having].n * Cardinality(Group(q)) } }

CostKey(r) == r.cost_per_night

\* what the store answers to the statement: the set of possible outcomes,
\* each [ok |-> FALSE] (the query is rejected) or [ok |-> TRUE, rows |-> ...]
RunSelect(queryString, queryParams, usersTable, strict) ==
  LET st == ParseSelect(Lex(queryString))
      failure == {[ok |-> FALSE, rows |-> <<>>]}
  IN IF strict /\ ParamJunk(queryString) THEN failure
     ELSE IF ~st.ok THEN failure
     ELSE IF ParamsUsed(st) # 1..Len(queryParams) THEN failure
     ELSE IF queryParams[st.limit].t # "num" \/ queryParams[st.limit].n < 0 THEN failure
     ELSE LET groups == GroupRows(st, queryParams, usersTable)
          IN { [ok |-> TRUE, rows |-> Take(s, queryParams[st.limit].n)] :
                 s \in OrderedBy(groups, [r \in groups |-> CostKey(r)]) }

\* ------------------------------------------------ the values a call returns
\* the {error, message} descriptor the .catch handlers build
ErrorDescriptor(msg) == [kind |-> "error", rows |-> <<>>, message |-> msg]

\* null
NullValue == [kind |-> "null", rows |-> <<>>, message |-> ""]

\* one row object
RecordValue(r) == [kind |-> "record", rows |-> <<r>>, message |-> ""]

\* an array of row objects (result.rows)
RowsValue(rs) == [kind |-> "rows", rows |-> rs, message |-> ""]

\* the driver's whole Result object, whose rows field holds the row objects
ResultObject(rs) == [kind |-> "result", rows |-> rs, message |-> ""]

\* the object handed to addProperty, as it is when the promise resolves
ObjectValue(o) == [kind |-> "object", rows |-> <<o>>, message |-> ""]

\* the promise of a query that has not settled yet
Pending == [kind |-> "pending", rows |-> <<>>, message |-> ""]

\* a TypeError raised before any promise exists
Thrown == [kind |-> "throw", rows |-> <<>>, message |-> "TypeError"]

\* -------------------------------------------------------------- the state
VARIABLES
  users_table,      \* rows of the users table of the store
  users_id_seq,     \* next value of the serial users.id
  rejectsParamJunk, \* the server rejects "$1AND" (TRUE) or reads "$1", "AND"
  properties,       \* the process-local mapping required from properties.json
  objects,          \* the heap: the property objects the mapping and callers hold
  committed,        \* the records addProperty has resolved with so far
  call,             \* the last call made on the module; failed: its query was rejected
  ret               \* what that call returned, or Pending while its query runs

vars ==
  <<users_table, users_id_seq, rejectsParamJunk, properties, objects, committed, call, ret>>

\* ----------------------------------------------------------------- inputs
Emails == {"ana@x.com", "bob@x.com", "cy@x.com"}

UserIds == 1..MaxUserId

\* the user objects a caller passes to addUser
UserInputs == {[name |-> "New", email |-> e, password |-> "p"] : e \in Emails}

\* limit omitted (the default applies) or given
LimitInputs == {Missing, Some(1)}

\* the options objects a caller passes to getAllProperties
OptionInputs ==
  [owner_id : {Missing, Some(1)},
   city : {Missing, Some(<<"a">>)},
   minimum_price_per_night : {Missing, Some(100)},
   maximum_price_per_night : {Missing, Some(0), Some(200)},
   minimum_rating : {Missing, Some(4)}]

\* the references of the property objects of the heap
Refs == {"json1", "body1"}

\* the heap when the process starts: json1 came from properties.json, body1
\* is a request body not yet handed to addProperty
InitialObjects ==
  [r \in Refs |->
     IF r = "json1"
     THEN [id |-> Some(1), owner_id |-> 1, city |-> <<"V","a","n">>, cost_per_night |-> 10000]
     ELSE [id |-> Missing, owner_id |-> 2, city |-> <<"A","b">>, cost_per_night |-> 5000]]

Init ==
  /\ users_table = InitialUsers
  /\ users_id_seq = 3
  /\ rejectsParamJunk \in BOOLEAN
  /\ properties = [k \in {1} |-> "json1"]
  /\ objects = InitialObjects
  /\ committed = {}
  /\ call = [op |-> "none", failed |-> FALSE]
  /\ ret = [kind |-> "none", rows |-> <<>>, message |-> ""]

\* the caller awaits each promise before it makes the next call
Idle == ret.kind # "pending"

Awaiting(op) == call.op = op /\ ret.kind = "pending"

\* ------------------------------------------------------------------ users
\* getUserWithEmailResult with a .catch that swallows the error
getUserWithEmailResult_NullOnError(usersTable, email, fault) ==
  LET rows == {u \in usersTable : u.email = email}
  IN IF fault THEN {NullValue}
     ELSE IF rows # {} THEN {RecordValue(u) : u \in rows} ELSE {NullValue}

\* what the promise of getUserWithEmail(email) resolves with; fault: the query fails
getUserWithEmailResult(usersTable, email, fault) ==
  LET rows == {u \in usersTable : u.email = email}
  IN IF fault
     THEN {ErrorDescriptor("An error occurred while fetching the user with email.")}
     ELSE IF rows # {} THEN {RecordValue(u) : u \in rows} ELSE {NullValue}

\* the call: pool.query is issued and the promise returned
getUserWithEmail(email) ==
  /\ Idle
  /\ call' = [op |-> "getUserWithEmail", email |-> email, failed |-> FALSE]
  /\ ret' = Pending
  /\ UNCHANGED <<users_table, users_id_seq, rejectsParamJunk, properties, objects, committed>>

\* the .then / .catch callback
getUserWithEmailSettle(fault) ==
  /\ Awaiting("getUserWithEmail")
  /\ call' = [call EXCEPT !.failed = fault]
  /\ ret' \in getUserWithEmailResult(users_table, call.email, fault)
  /\ UNCHANGED <<users_table, users_id_seq, rejectsParamJunk, properties, objects, committed>>

getUserWithIdResult(usersTable, id, fault) ==
  LET rows == {u \in usersTable : u.id = id}
  IN IF fault
     THEN {ErrorDescriptor("An error occurred while fetching the user with id.")}
     ELSE IF rows # {} THEN {RecordValue(u) : u \in rows} ELSE {NullValue}

getUserWithId(id) ==
  /\ Idle
  /\ call' = [op |-> "getUserWithId", id |-> id, failed |-> FALSE]
  /\ ret' = Pending
  /\ UNCHANGED <<users_table, users_id_seq, rejectsParamJunk, properties, objects, committed>>

getUserWithIdSettle(fault) ==
  /\ Awaiting("getUserWithId")
  /\ call' = [call EXCEPT !.failed = fault]
  /\ ret' \in getUserWithIdResult(users_table, call.id, fault)
  /\ UNCHANGED <<users_table, users_id_seq, rejectsParamJunk, properties, objects, committed>>

\* the unique constraint on users.email
UniqueEmailViolation(usersTable, email) == \E u \in usersTable : u.email = email

\* the row the insert statement creates
InsertedUser(id, user) ==
  [id |-> id, name |-> user.name, email |-> user.email, password |-> user.password]

\* what the .then callback of addUser returns for the driver's result
addUserThen(result) == ResultObject(result.rows)

\* addUser(user); isNull: the caller passed null or undefined, and reading
\* user.name throws before any query is issued
addUser(isNull, user) ==
  /\ Idle
  /\ users_id_seq <= MaxUserId
  /\ call' = [op |-> "addUser", isNull |-> isNull, user |-> user, failed |-> FALSE]
  /\ ret' = IF isNull THEN Thrown ELSE Pending
  /\ UNCHANGED <<users_table, users_id_seq, rejectsParamJunk, properties, objects, committed>>

addUserSettle(fault) ==
  /\ Awaiting("addUser")
  /\ IF fault
     THEN /\ ret' = ErrorDescriptor("An error occurred while adding the user.")
          /\ call' = [call EXCEPT !.failed = TRUE]
          /\ UNCHANGED <<users_table, users_id_seq>>
     ELSE IF UniqueEmailViolation(users_table, call.user.email)
     THEN /\ ret' = ErrorDescriptor("An error occurred while adding the user.")
          /\ call' = [call EXCEPT !.failed = TRUE]
          /\ users_id_seq' = users_id_seq + 1
          /\ UNCHANGED users_table
     ELSE LET row == InsertedUser(users_id_seq, call.user)
          IN /\ users_table' = users_table \cup {row}
             /\ users_id_seq' = users_id_seq + 1
             /\ ret' = addUserThen([rows |-> <<row>>])
             /\ UNCHANGED call
  /\ UNCHANGED <<rejectsParamJunk, properties, objects, committed>>

\* ----------------------------------------------------------- reservations
\* the limit parameter after its default has been applied
LimitOf(limitArg) == IF limitArg = Missing THEN DefaultLimit ELSE limitArg[1]

\* StartDateKey ordering by the reservation's id instead
StartDateKey_ById(pair) == pair[1].id

\* order by start_date
StartDateKey(pair) == pair[1].start_date

\* the groups (properties.id, reservations.id) of the three-way join for a guest
ReservationGroups(guest_id) ==
  { pair \in reservations \X properties_table :
      /\ pair[1].guest_id = guest_id
      /\ pair[2].id = pair[1].property_id
      /\ \E rv \in property_reviews : rv.property_id = pair[2].id }

getAllReservationsResult(guest_id, limitArg, fault) ==
  IF fault
  THEN {ErrorDescriptor("An error occurred while fetching the reservations of user.")}
  ELSE LET groups == ReservationGroups(guest_id)
       IN { RowsValue(Take([i \in 1..Len(s) |-> s[i][2]], LimitOf(limitArg))) :
              s \in OrderedBy(groups, [g \in groups |-> StartDateKey(g)]) }

getAllReservations(guest_id, limitArg) ==
  /\ Idle
  /\ call' = [op |-> "getAllReservations", guest_id |-> guest_id,
              limit |-> limitArg, failed |-> FALSE]
  /\ ret' = Pending
  /\ UNCHANGED <<users_table, users_id_seq, rejectsParamJunk, properties, objects, committed>>

getAllReservationsSettle(fault) ==
  /\ Awaiting("getAllReservations")
  /\ call' = [call EXCEPT !.failed = fault]
  /\ ret' \in getAllReservationsResult(call.guest_id, call.limit, fault)
  /\ UNCHANGED <<users_table, users_id_seq, rejectsParamJunk, properties, objects, committed>>

\* ------------------------------------------------------------- properties
\* what the promise of getAllProperties resolves with, given what the store
\* answers: o.ok = FALSE when the query is rejected
getAllPropertiesThen(o) ==
  IF o.ok THEN RowsValue(o.rows)
  ELSE ErrorDescriptor("An error occurred while fetching the properties.")

\* the answers of the store to the query built from options and limit;
\* fault: the connection fails
getAllPropertiesAnswers(usersTable, strict, options, limitArg, fault) ==
  LET q == BuildQuery(options, NumParam(LimitOf(limitArg)))
  IN IF fault THEN {[ok |-> FALSE, rows |-> <<>>]}
     ELSE RunSelect(q.queryString, q.queryParams, usersTable, strict)

\* getAllProperties(options, limit); isNull: the caller passed null, and
\* reading options.owner_id throws before any query is issued
getAllProperties(isNull, options, limitArg) ==
  /\ Idle
  /\ call' = [op |-> "getAllProperties", isNull |-> isNull, options |-> options,
              limit |-> limitArg, failed |-> FALSE]
  /\ ret' = IF isNull THEN Thrown ELSE Pending
  /\ UNCHANGED <<users_table, users_id_seq, rejectsParamJunk, properties, objects, committed>>

getAllPropertiesSettle(fault) ==
  /\ Awaiting("getAllProperties")
  /\ \E o \in getAllPropertiesAnswers(users_table, rejectsParamJunk, call.options,
                                      call.limit, fault) :
        /\ ret' = getAllPropertiesThen(o)
        /\ call' = [call EXCEPT !.failed = ~o.ok]
  /\ UNCHANGED <<users_table, users_id_seq, rejectsParamJunk, properties, objects, committed>>

\* Object.keys(properties).length + 1
NextPropertyId(props) == Cardinality(DOMAIN props) + 1

\* addProperty(property); isNull: the caller passed null or undefined.
\* The promise is created already resolved.
addProperty(isNull, ref) ==
  /\ Idle
  /\ Cardinality(DOMAIN properties) < MaxProps
  /\ call' = [op |-> "addProperty", isNull |-> isNull, ref |-> ref, failed |-> FALSE]
  /\ IF isNull
     THEN /\ ret' = Thrown
          /\ UNCHANGED <<properties, objects, committed>>
     ELSE LET propertyId == NextPropertyId(properties)
              stored == [objects[ref] EXCEPT !.id = Some(propertyId)]
          IN /\ objects' = [objects EXCEPT ![ref] = stored]
             /\ properties' = [k \in DOMAIN properties \cup {propertyId} |->
                                 IF k = propertyId THEN ref ELSE properties[k]]
             /\ committed' = committed \cup {stored}
             /\ ret' = ObjectValue(stored)
  /\ UNCHANGED <<users_table, users_id_seq, rejectsParamJunk>>

\* the options object used when the caller passed null
NoOptions ==
  [owner_id |-> Missing, city |-> Missing, minimum_price_per_night |-> Missing,
   maximum_price_per_night |-> Missing, minimum_rating |-> Missing]

Next ==
  \/ \E email \in Emails : getUserWithEmail(email)
  \/ \E fault \in BOOLEAN : getUserWithEmailSettle(fault)
  \/ \E id \in UserIds : getUserWithId(id)
  \/ \E fault \in BOOLEAN : getUserWithIdSettle(fault)
  \/ \E user \in UserInputs : addUser(FALSE, user)
  \/ addUser(TRUE, [name |-> "", email |-> "", password |-> ""])
  \/ \E fault \in BOOLEAN : addUserSettle(fault)
  \/ \E guest_id \in UserIds, limitArg \in LimitInputs : getAllReservations(guest_id, limitArg)
  \/ \E fault \in BOOLEAN : getAllReservationsSettle(fault)
  \/ \E options \in OptionInputs, limitArg \in LimitInputs :
        getAllProperties(FALSE, options, limitArg)
  \/ \E limitArg \in LimitInputs : getAllProperties(TRUE, NoOptions, limitArg)
  \/ \E fault \in BOOLEAN : getAllPropertiesSettle(fault)
  \/ \E ref \in Refs : addProperty(FALSE, ref)
  \/ addProperty(TRUE, "json1")

Spec == Init /\ [][Next]_vars

\* ===================================================================
\* Properties
\* ===================================================================

\* the query text and parameters the last getAllProperties call assembled
LastQuery == BuildQuery(call.options, NumParam(LimitOf(call.limit)))

\* the last call was getAllProperties with an options object
ListingCall == call.op = "getAllProperties" /\ ~call.isNull

\* C1: no operation throws, and every fault of a query comes back as the
\* {error, message} descriptor.
C1_FaultsAreReturned ==
  /\ ret.kind # "throw"
  /\ (call.failed /\ ret.kind # "pending") => ret.kind = "error"

\* C2: a successful addUser returns the created user record with its id N;
\* getUserWithEmail(u.email) then returns a user with id N and
\* getUserWithId(N) returns the very record addUser returned.
C2_AddUserRoundTrip ==
  (call.op = "addUser" /\ ret.kind \notin {"pending", "throw", "error"}) =>
     /\ ret.kind = "record"
     /\ \A o \in getUserWithEmailResult(users_table, call.user.email, FALSE) :
          o.kind = "record" /\ o.rows[1].id = ret.rows[1].id
     /\ \A o \in getUserWithIdResult(users_table, ret.rows[1].id, FALSE) : o = ret

\* position i of the tokens starts a row predicate: column, comparison
IsRowPredicate(toks, i) ==
  /\ i + 1 <= Len(toks)
  /\ toks[i] \in {"city", "cost_per_night"}
  /\ toks[i + 1] \in {"LIKE", ">=", "<="}

Positions(toks, word) == {i \in 1..Len(toks) : toks[i] = word}

\* the number of row filters (city, minimum and maximum price) in effect
RowFilterCount(options) ==
  (IF TruthyStr(options.city) THEN 1 ELSE 0)
    + (IF TruthyNum(options.minimum_price_per_night) THEN 1 ELSE 0)
    + (IF TruthyNum(options.maximum_price_per_night) THEN 1 ELSE 0)

WellChained(toks, options) ==
  LET preds == {i \in 1..Len(toks) : IsRowPredicate(toks, i)}
  IN /\ Cardinality(preds) = RowFilterCount(options)
     /\ Cardinality(Positions(toks, "WHERE")) = IF preds = {} THEN 0 ELSE 1
     /\ \A i \in preds :
          /\ i > 1
          /\ toks[i - 1] = IF \A j \in preds : i <= j THEN "WHERE" ELSE "AND"
          /\ \A j \in Positions(toks, "JOIN") : j < i
          /\ \A j \in Positions(toks, "GROUP") : i < j

\* C3: whichever filters are present, the first row predicate follows exactly
\* one WHERE token, every further one an AND token, and all of them stand
\* after the joins and before GROUP BY.
C3_WhereAndChain == ListingCall => WellChained(Lex(LastQuery.queryString), call.options)

RECURSIVE ReviewSum(_)
ReviewSum(reviews) ==
  IF reviews = {} THEN 0
  ELSE LET rv == CHOOSE x \in reviews : TRUE IN rv.rating + ReviewSum(reviews \ {rv})

OwnReviews(propertyId) == {rv \in property_reviews : rv.property_id = propertyId}

C5_PriceRange ==
  (ListingCall /\ ret.kind = "rows") =>
     \A i \in 1..Len(ret.rows) :
        /\ call.options.minimum_price_per_night # Missing =>
             ret.rows[i].cost_per_night >= call.options.minimum_price_per_night[1] * 100
        /\ call.options.maximum_price_per_night # Missing =>
             ret.rows[i].cost_per_night <= call.options.maximum_price_per_night[1] * 100

\* the record p passes the filters of options (a filter on the rating is
\* passed by no record without reviews)
SatisfiesFilters(p, options) ==
  /\ TruthyNum(options.owner_id) => p.owner_id = options.owner_id[1]
  /\ TruthyStr(options.city) => Like(p.city, <<"%">> \o options.city[1] \o <<"%">>)
  /\ TruthyNum(options.minimum_price_per_night) =>
       p.cost_per_night >= options.minimum_price_per_night[1] * 100
  /\ TruthyNum(options.maximum_price_per_night) =>
       p.cost_per_night <= options.maximum_price_per_night[1] * 100
  /\ ~TruthyNum(options.minimum_rating)

\* C6: once addProperty(p) has completed, a listing whose filters p passes
\* and whose limit is not used up contains p exactly once.
C6_AddedPropertyListed ==
  (ListingCall /\ ret.kind = "rows") =>
     \A p \in committed :
        (SatisfiesFilters(p, call.options) /\ Len(ret.rows) < LimitOf(call.limit)) =>
           Cardinality({ i \in 1..Len(ret.rows) :
                           /\ ret.rows[i].id = p.id[1]
                           /\ ret.rows[i].owner_id = p.owner_id
                           /\ ret.rows[i].city = p.city
                           /\ ret.rows[i].cost_per_night = p.cost_per_night }) = 1

\* C7: when its query runs, getAllReservations(guest_id, limit) returns at
\* most limit property records, one per reservation of the guest, each with a
\* review, in non-decreasing order of the reservations' start_date; a guest
\* without reservations gets the empty sequence, not an error descriptor.
C7_Reservations ==
  (call.op = "getAllReservations" /\ ret.kind # "pending" /\ ~call.failed) =>
     /\ ret.kind = "rows"
     /\ Len(ret.rows) <= LimitOf(call.limit)
     /\ \E rs \in [1..Len(ret.rows) -> reservations] :
           /\ \A i, j \in 1..Len(ret.rows) : i # j => rs[i] # rs[j]
           /\ \A i \in 1..Len(ret.rows) :
                 /\ rs[i].guest_id = call.guest_id
                 /\ rs[i].property_id = ret.rows[i].id
                 /\ ret.rows[i] \in properties_table
                 /\ OwnReviews(ret.rows[i].id) # {}
           /\ \A i \in 1..(Len(ret.rows) - 1) : rs[i].start_date <= rs[i + 1].start_date
     /\ (\A rs \in reservations : rs.guest_id # call.guest_id) => ret.rows = <<>>

\* a guest's reservations came back, several of them
C7_Witness ==
  /\ call.op = "getAllReservations" /\ ret.kind = "rows" /\ ~call.failed
  /\ Len(ret.rows) >= 3

\* the rows of the users table the last lookup was about
LookupMatches ==
  IF call.op = "getUserWithEmail" THEN {u \in users_table : u.email = call.email}
  ELSE {u \in users_table : u.id = call.id}

\* C8: a lookup returns null exactly when its query succeeds without a
\* matching row, the matching record when a row matches, and the error
\* descriptor exactly when the query fails.
C8_UserLookup ==
  (call.op \in {"getUserWithEmail", "getUserWithId"} /\ ret.kind # "pending") =>
     /\ ret.kind = "null" <=> (~call.failed /\ LookupMatches = {})
     /\ (~call.failed /\ LookupMatches # {}) =>
           (ret.kind = "record" /\ ret.rows[1] \in LookupMatches)
     /\ ret.kind = "error" <=> call.failed

\* a lookup failed and the descriptor came back
C8_Witness ==
  /\ call.op \in {"getUserWithEmail", "getUserWithId"}
  /\ call.failed /\ ret.kind = "error"

\* the value the filter whose clause holds the parameter at position i of the
\* tokens should contribute, or none when no clause is recognised there
ExpectedParam(toks, i, options, limit) ==
  IF i < 2 THEN {}
  ELSE IF toks[i - 1] = "ON"
       THEN IF options.owner_id = Missing THEN {} ELSE {NumParam(options.owner_id[1])}
  ELSE IF toks[i - 1] = "LIMIT" THEN {limit}
  ELSE IF i < 3 THEN {}
  ELSE IF toks[i - 2] = "city" /\ toks[i - 1] = "LIKE"
       THEN IF options.city = Missing THEN {}
            ELSE {TextParam(<<"%">> \o options.city[1] \o <<"%">>)}
  ELSE IF toks[i - 2] = "cost_per_night" /\ toks[i - 1] = ">="
       THEN IF options.minimum_price_per_night = Missing THEN {}
            ELSE {NumParam(options.minimum_price_per_night[1] * 100)}
  ELSE IF toks[i - 2] = "cost_per_night" /\ toks[i - 1] = "<="
       THEN IF options.maximum_price_per_night = Missing THEN {}
            ELSE {NumParam(options.maximum_price_per_night[1] * 100)}
  ELSE IF toks[i - 2] = ")" /\ toks[i - 1] = ">="
       THEN IF options.minimum_rating = Missing THEN {} ELSE {NumParam(options.minimum_rating[1])}
  ELSE {}

Aligned(q, options, limit) ==
  LET toks == Lex(q.queryString)
      n == Len(q.queryParams)
      places == {i \in 1..Len(toks) : Len(toks[i]) > 0 /\ IsParamTok(toks[i])}
      dollars == {i \in 1..Len(q.queryString) : q.queryString[i] = "$"}
      groups == {i \in 1..(Len(toks) - 1) : toks[i] = "GROUP" /\ toks[i + 1] = "BY"}
  IN /\ Cardinality(places) = n
     /\ Cardinality(dollars) = n
     /\ \A i \in places :
          /\ ParamNo(toks[i]) = Cardinality({j \in places : j <= i})
          /\ ExpectedParam(toks, i, options, limit) = {q.queryParams[ParamNo(toks[i])]}
     /\ \E i \in places : ParamNo(toks[i]) = n /\ toks[i - 1] = "LIMIT"
     /\ q.queryParams[n] = limit
     /\ Cardinality(groups) = 1
     /\ \A g \in groups :
          /\ \A j \in Positions(toks, "ORDER") : g < j
          /\ \A j \in Positions(toks, "LIMIT") : g < j

\* C9: whichever filters are present, the placeholders are $1..$n in order of
\* appearance with n the number of parameters, the k-th parameter is the
\* value of the filter whose clause holds $k (city inside %...%, prices times
\* 100), limit is the last parameter and the one after LIMIT, and there is
\* exactly one GROUP BY, before ORDER BY and LIMIT.
C9_ParamsAligned ==
  ListingCall => Aligned(LastQuery, call.options, NumParam(LimitOf(call.limit)))

\* a listing was asked for with all five filters in effect
C9_Witness ==
  /\ ListingCall
  /\ TruthyNum(call.options.owner_id) /\ TruthyStr(call.options.city)
  /\ TruthyNum(call.options.minimum_price_per_night)
  /\ TruthyNum(call.options.maximum_price_per_night)
  /\ TruthyNum(call.options.minimum_rating)
  /\ Len(LastQuery.queryParams) = 6

\* every entry of the mapping carries the key it is stored under as its id
KeysAreIds == \A k \in DOMAIN properties : objects[properties[k]].id = Some(k)

\* a step that stores a property uses a key that was free and leaves the
\* entries stored before under their keys
StoresUnderFreshKey ==
  properties' # properties =>
     /\ ret'.rows[1].id[1] \notin DOMAIN properties
     /\ \A k \in DOMAIN properties : properties'[k] = properties[k]

\* C10: in the in-memory variant every addProperty call returns an id that
\* was not a key before, overwrites no stored entry, and every stored entry's
\* id equals its key, also when the same object is passed again.
C10_InMemoryIds == [][StoresUnderFreshKey]_vars /\ []KeysAreIds

====
